---- MODULE Spec2Model ----
(***************************************************************************)
(* A model of thamos/lib.py: the client library that submits analyses to   *)
(* Thoth (advise, provenance_check, image_analysis), waits for them with   *)
(* _wait_for_analysis, fetches their result with _retrieve_analysis_result *)
(* and dispatches get_log / get_status on the analysis identifier.         *)
(*                                                                         *)
(* Python values are represented as follows.                               *)
(*   str            a sequence of one-character strings ("" is <<>>)       *)
(*   Optional[T]    a set with at most one element (None is {})            *)
(*   dict           a set of <<key, value>> pairs, values Optional[str]    *)
(*   float seconds  an integer number of half seconds (0.5 s is 1)         *)
(***************************************************************************)
EXTENDS Integers, Sequences, FiniteSets, TLC

VARIABLES
    thoth_config,   \* process-wide configuration (thoth_config.content)
    pc,             \* position of the top-level call in progress
    func,           \* name of the top-level function in progress
    args,           \* its arguments
    calls,          \* endpoints invoked so far by this top-level call
    submitted,      \* Optional: parameters of the submit request
    analysis_id,    \* Optional: response.analysis_id of the submit response
    sleep_time,     \* _wait_for_analysis: sleep_time
    sleeps,         \* _wait_for_analysis: the durations passed to sleep()
    status_log,     \* _wait_for_analysis: what every status request did
    response,       \* _wait_for_analysis: Optional, the status response at hand
    fetched,        \* Optional: what retrieve_func did (returned or raised)
    retrieved,      \* Optional: what _retrieve_analysis_result did
    outcome,        \* what the top-level call did (returned or raised)
    api_client,     \* Optional: the ApiClient the wrapper built last
    passed,         \* what the submitter gave its status and result requests
    pollers,        \* concurrent _wait_for_analysis invocations: their locals
    jobs            \* the server's analysis behind each of those invocations

vars == <<thoth_config, pc, func, args, calls, submitted, analysis_id,
          sleep_time, sleeps, status_log, response, fetched, retrieved, outcome,
          api_client, passed, pollers, jobs>>

\* What the top-level calls leave alone: the concurrent pollers.
pollvars == <<pollers, jobs>>

\* The state of a top-level call and of the configuration.
callvars == <<thoth_config, pc, func, args, calls, submitted, analysis_id,
              sleep_time, sleeps, status_log, response, fetched, retrieved,
              outcome, api_client, passed>>

----------------------------------------------------------------------------
(* Bounds of the model. *)

\* The number of sleeps one _wait_for_analysis call is followed through.
MaxSleeps == 7

----------------------------------------------------------------------------
(* Python values. *)

None == {}
Some(x) == {x}
Val(o) == CHOOSE x \in o : TRUE

\* bool(s) of an Optional[str]: None and "" are falsy.
Truthy(o) == o # None /\ Val(o) # <<>>

\* bool(d) of an Optional[dict]: None and {} are falsy.
TruthyDict(o) == o # None /\ Val(o) # {}

\* a or b
PyOr(a, b) == IF Truthy(a) THEN a ELSE b

\* a or b, on Optional[dict]
PyOrDict(a, b) == IF TruthyDict(a) THEN a ELSE b

\* key in d
HasKey(d, key) == \E p \in d : p[1] = key

\* d[key]
Lookup(d, key) == (CHOOSE p \in d : p[1] = key)[2]

\* d after d.pop(key)
Without(d, key) == {p \in d : p[1] # key}

Min(a, b) == IF a <= b THEN a ELSE b

UpperCase ==
    <<"A","B","C","D","E","F","G","H","I","J","K","L","M",
      "N","O","P","Q","R","S","T","U","V","W","X","Y","Z">>

LowerCase ==
    <<"a","b","c","d","e","f","g","h","i","j","k","l","m",
      "n","o","p","q","r","s","t","u","v","w","x","y","z">>

LowerChar(c) ==
    IF \E i \in 1..Len(UpperCase) : UpperCase[i] = c
    THEN LowerCase[CHOOSE i \in 1..Len(UpperCase) : UpperCase[i] = c]
    ELSE c

\* s.lower()
Lower(s) == [i \in 1..Len(s) |-> LowerChar(s[i])]

\* s.startswith(prefix)
StartsWith(s, prefix) ==
    /\ Len(s) >= Len(prefix)
    /\ SubSeq(s, 1, Len(prefix)) = prefix

----------------------------------------------------------------------------
(* String literals of lib.py. *)

\* "stable"
stable == <<"s","t","a","b","l","e">>

\* "package-extract-"
package_extract_prefix ==
    <<"p","a","c","k","a","g","e","-","e","x","t","r","a","c","t","-">>

\* "provenance-checker-"
provenance_checker_prefix ==
    <<"p","r","o","v","e","n","a","n","c","e","-","c","h","e","c","k","e","r","-">>

\* "adviser-"
adviser_prefix == <<"a","d","v","i","s","e","r","-">>

----------------------------------------------------------------------------
(* _wait_for_analysis *)

\* sleep_time = 0.5
InitialSleepTime == 1

\* the 10 of min(sleep_time * 2, 10)
SleepCap == 20

\* A loop that stops on status.state instead of status.finished_at.
IsFinishedByState(r) == r.status.state = "succeeded"

\* response.status.finished_at is not None
IsFinished(r) == r.status.finished_at # None

\* A backoff that doubles without the ceiling.
NextSleepTimeUncapped(t) == t * 2

\* sleep_time = min(sleep_time * 2, 10)
NextSleepTime(t) == Min(t * 2, SleepCap)

\* A loop that takes a failed status request for an unfinished analysis and
\* polls again.
AfterStatusRetrying(r) ==
    IF r.raises = "" /\ IsFinished(r) THEN "break" ELSE "sleep"

\* A loop that leaves on any response that is not an error, finished or not.
AfterStatusNeverWaits(r) ==
    IF r.raises # "" THEN "raise" ELSE "break"

\* A loop that polls again after a finished response whose state is not
\* "succeeded".
AfterStatusRepolling(r) ==
    IF r.raises # "" THEN "raise"
    ELSE IF IsFinished(r) /\ r.status.state = "succeeded" THEN "break"
    ELSE "sleep"

\* What the loop does with what status_func did: the error propagates, a
\* finished status breaks the loop, any other status is slept on.
AfterStatus(r) ==
    IF r.raises # "" THEN "raise"
    ELSE IF IsFinished(r) THEN "break"
    ELSE "sleep"

----------------------------------------------------------------------------
(* _wait_for_analysis: the choice of the spinner *)

Digits == {"0","1","2","3","4","5","6","7","8","9"}

\* bool(int(os.getenv("THAMOS_NO_PROGRESSBAR", 1))): the variable is unset
\* (None) or a string; int() of a string that is not a number raises.
NoProgressbar(env) ==
    IF env = None THEN [raises |-> "", value |-> TRUE]
    ELSE LET s == Val(env) IN
         IF Len(s) > 0 /\ \A i \in 1..Len(s) : s[i] \in Digits
         THEN [raises |-> "", value |-> \E i \in 1..Len(s) : s[i] # "0"]
         ELSE [raises |-> "ValueError", value |-> FALSE]

\* The context manager the loop runs in: yaspin, or _no_spinner at the DEBUG
\* level or when THAMOS_NO_PROGRESSBAR is not 0; or the exception of int().
Spinner(level, env) ==
    IF level = "DEBUG" THEN "_no_spinner"
    ELSE IF NoProgressbar(env).raises # "" THEN NoProgressbar(env).raises
    ELSE IF NoProgressbar(env).value THEN "_no_spinner"
    ELSE "yaspin"

----------------------------------------------------------------------------
(* _retrieve_analysis_result *)

\* json.loads(exc.body): the parsed value, or the exception it raises.  A body
\* is [syntax, members]: a JSON object with its members, a JSON array, text
\* that is not JSON, or no body at all (None).
JsonLoads(body) ==
    CASE body.syntax = "object" -> [raises |-> "", syntax |-> "dict", members |-> body.members]
      [] body.syntax = "array"  -> [raises |-> "", syntax |-> "list", members |-> {}]
      [] body.syntax = "text"   -> [raises |-> "JSONDecodeError", syntax |-> "", members |-> {}]
      [] OTHER                  -> [raises |-> "TypeError", syntax |-> "", members |-> {}]

\* response["error"]: "" when the subscription succeeds, else the exception.
SubscriptError(parsed) ==
    IF parsed.syntax = "dict"
    THEN IF HasKey(parsed.members, "error") THEN "" ELSE "KeyError"
    ELSE "TypeError"

\* A retriever without the except clause: every error propagates.
RetrieveAnalysisResultReraising(f) ==
    IF f.kind = "return"
    THEN [kind |-> "return", exc |-> "", body |-> f.body, value |-> f.value]
    ELSE [kind |-> "raise", exc |-> f.exc, body |-> f.body, value |-> None]

\* What _retrieve_analysis_result does, given what retrieve_func did.
RetrieveAnalysisResult(f) ==
    IF f.kind = "return"
    THEN [kind |-> "return", exc |-> "", body |-> f.body, value |-> f.value]
    ELSE IF f.exc # "ApiException"
    THEN [kind |-> "raise", exc |-> f.exc, body |-> f.body, value |-> None]
    ELSE LET parsed == JsonLoads(f.body) IN
         IF parsed.raises # ""
         THEN [kind |-> "raise", exc |-> parsed.raises, body |-> f.body, value |-> None]
         ELSE IF SubscriptError(parsed) # ""
         THEN [kind |-> "raise", exc |-> SubscriptError(parsed), body |-> f.body, value |-> None]
         ELSE [kind |-> "return", exc |-> "", body |-> f.body, value |-> None]

----------------------------------------------------------------------------
(* thoth_config *)

\* thoth_config.load_config(): the content is read from the file again.
LoadConfig(config) == [config EXCEPT !.content = config.file]

\* thoth_config.get_runtime_environment(name): the first entry of
\* runtime_environments when no name is given (None when there is none), the
\* entry of that name otherwise; no entry of that name raises.
GetRuntimeEnvironment(content, name) ==
    LET envs == content.runtime_environments IN
    IF ~Truthy(name)
    THEN [raises |-> "", index |-> IF Len(envs) > 0 THEN 1 ELSE 0]
    ELSE IF \E i \in 1..Len(envs) :
                HasKey(envs[i], "name") /\ Lookup(envs[i], "name") = name
    THEN [raises |-> "",
          index |-> CHOOSE i \in 1..Len(envs) :
                        /\ HasKey(envs[i], "name") /\ Lookup(envs[i], "name") = name
                        /\ \A j \in 1..(i - 1) :
                              ~(HasKey(envs[j], "name") /\ Lookup(envs[j], "name") = name)]
    ELSE [raises |-> "NoRuntimeEnvironmentError", index |-> 0]

----------------------------------------------------------------------------
(* advise *)

\* A validation that checks the Pipfile only.
AdviseValidationPipfileOnly(a) ==
    IF ~Truthy(a.pipfile) THEN "No Pipfile content provided for advises" ELSE ""

\* The checks of the arguments: the message of the ValueError raised, "" when
\* there is none.
AdviseValidation(a) ==
    IF ~Truthy(a.pipfile) THEN "No Pipfile content provided for advises"
    ELSE IF TruthyDict(a.runtime_environment) /\ Truthy(a.runtime_environment_name)
    THEN "Cannot use runtime_environment and runtime_environment_name at the same time"
    ELSE ""

\* runtime_environment or thoth_config.get_runtime_environment(name): the
\* mapping advise works on, and where it comes from ("argument", "config" with
\* the index of the entry, or "none"); the lookup may raise.
SelectedEnvironment(a, content) ==
    LET found == GetRuntimeEnvironment(content, a.runtime_environment_name) IN
    IF TruthyDict(a.runtime_environment)
    THEN [raises |-> "", from |-> "argument", index |-> 0, env |-> a.runtime_environment]
    ELSE IF found.raises # ""
    THEN [raises |-> found.raises, from |-> "none", index |-> 0, env |-> None]
    ELSE IF found.index = 0
    THEN [raises |-> "", from |-> "none", index |-> 0, env |-> None]
    ELSE [raises |-> "", from |-> "config", index |-> found.index,
          env |-> Some(content.runtime_environments[found.index])]

\* thoth_config.content.get("recommendation_type") or "stable"
ConfigRecommendationType(content) ==
    PyOr(content.recommendation_type, Some(stable))

\* The runtime environment entry overrides the configured recommendation type.
EntryRecommendationType(env, configured) ==
    IF TruthyDict(env) /\ HasKey(Val(env), "recommendation_type")
    THEN Lookup(Val(env), "recommendation_type")
    ELSE configured

\* recommendation_type = recommendation_type_explicit or recommendation_type,
\* lowered when it is truthy.
ExplicitRecommendationType(explicit, derived) ==
    LET chosen == PyOr(explicit, derived) IN
    IF Truthy(chosen) THEN Some(Lower(Val(chosen))) ELSE chosen

\* The recommendation type advise passes to post_advise_python.
RecommendationType(explicit, env, content) ==
    ExplicitRecommendationType(
        explicit, EntryRecommendationType(env, ConfigRecommendationType(content)))

\* The runtime environment after the entry's recommendation_type was popped.
PoppedEnvironment(env) ==
    IF TruthyDict(env) THEN Some(Without(Val(env), "recommendation_type")) ELSE env

----------------------------------------------------------------------------
(* provenance_check, image_analysis *)

\* The check of provenance_check's arguments.
ProvenanceValidation(a) ==
    IF ~Truthy(a.pipfile) THEN "No Pipfile content provided for provenance checks" ELSE ""

\* The check of image_analysis's arguments.
ImageValidation(a) == IF ~Truthy(a.image) THEN "No image provided" ELSE ""

\* A submitter that ignores nowait.
ReturnsIdentifierNever(a) == FALSE

\* if nowait: return response.analysis_id
ReturnsIdentifier(a) == a.nowait

\* The keyword arguments image_analysis passes to post_analyze.
PostAnalyzeKeywords(a) ==
    IF Truthy(a.registry_user) \/ Truthy(a.registry_password)
    THEN {"image", "debug", "registry_user", "registry_password", "verify_tls", "force"}
    ELSE {"image", "debug", "verify_tls", "force"}

----------------------------------------------------------------------------
(* The endpoints each function uses. *)

\* The status method each submitter hands to _wait_for_analysis.
StatusEndpoint(f) ==
    CASE f = "advise"           -> "get_advise_python_status"
      [] f = "provenance_check" -> "get_provenance_python_status"
      [] OTHER                  -> "get_analyze_status"

\* The result method each submitter hands to _retrieve_analysis_result.
ResultEndpoint(f) ==
    CASE f = "advise"           -> "get_advise_python"
      [] f = "provenance_check" -> "get_provenance_python"
      [] OTHER                  -> "get_analyze"

\* A get_log whose provenance and adviser branches use each other's method.
LogMethodSwapped(id) ==
    IF StartsWith(id, package_extract_prefix) THEN "get_analyze_log"
    ELSE IF StartsWith(id, provenance_checker_prefix) THEN "get_advise_python_log"
    ELSE IF StartsWith(id, adviser_prefix) THEN "get_provenance_python_log"
    ELSE "UnknownAnalysisType"

\* get_log: the log method chosen for an identifier, or the exception raised.
LogMethod(id) ==
    IF StartsWith(id, package_extract_prefix) THEN "get_analyze_log"
    ELSE IF StartsWith(id, provenance_checker_prefix) THEN "get_provenance_python_log"
    ELSE IF StartsWith(id, adviser_prefix) THEN "get_advise_python_log"
    ELSE "UnknownAnalysisType"

\* get_status: the status method chosen for an identifier, or the exception.
StatusMethod(id) ==
    IF StartsWith(id, package_extract_prefix) THEN "get_analyze_status"
    ELSE IF StartsWith(id, provenance_checker_prefix) THEN "get_provenance_python_status"
    ELSE IF StartsWith(id, adviser_prefix) THEN "get_advise_python_status"
    ELSE "UnknownAnalysisType"

----------------------------------------------------------------------------
(* with_api_client *)

\* Configuration().host: the host a new Configuration starts with.
DefaultHost == <<"l","o","c","a","l","h","o","s","t">>

\* thoth_config.api_discovery(host): api_url becomes the API found at host.
ApiDiscovery(config, host) ==
    [config EXCEPT !.api_url = Some(host \o <<"/","a","p","i","/","v","1">>)]

\* The host the wrapper resolves: the explicit host, else the host of the
\* configuration's content, else the host of the new Configuration.
WrapperHost(config) ==
    IF Truthy(config.explicit_host) THEN config.explicit_host
    ELSE PyOr(config.content.host, Some(DefaultHost))

\* A wrapper that builds its ApiClient once and keeps it for later calls.
ApiClientCached(config) ==
    IF api_client # None THEN Val(api_client)
    ELSE [host |-> Val(config.api_url), verify_ssl |-> config.tls_verify]

\* The ApiClient the wrapper builds: a new Configuration with the discovered
\* API as its host and the configured TLS verification.
ApiClient(config) ==
    [host |-> Val(config.api_url), verify_ssl |-> config.tls_verify]

----------------------------------------------------------------------------
(* What a submitter gives its poller and its retriever. *)

\* A submitter that picks the status method by the identifier's prefix.
WaitArgumentsByIdentifier(f, id) ==
    [func |-> StatusMethod(id), analysis_id |-> id]

\* _wait_for_analysis(api_instance.get_..._status, response.analysis_id)
WaitArguments(f, id) ==
    [func |-> StatusEndpoint(f), analysis_id |-> id]

\* _retrieve_analysis_result(api_instance.get_..., response.analysis_id)
RetrieveArguments(f, id) ==
    [func |-> ResultEndpoint(f), analysis_id |-> id]

----------------------------------------------------------------------------
(* What a top-level call did. *)

NoOutcome ==
    [kind |-> "none", exc |-> "", message |-> "", what |-> "", value |-> None]
Returned(what, value) ==
    [kind |-> "return", exc |-> "", message |-> "", what |-> what, value |-> value]
Raised(exc) ==
    [kind |-> "raise", exc |-> exc, message |-> "", what |-> "", value |-> None]
ValueError(message) ==
    [kind |-> "raise", exc |-> "ValueError", message |-> message, what |-> "",
     value |-> None]

\* A submitter that hands back the whole result payload for every kind.
SubmitterResultBare(f, r) ==
    IF r.value = None THEN Returned("None", None)
    ELSE Returned("result", Some(Val(r.value).result))

\* What a submitter returns from a retrieved response: None when it is falsy,
\* else the fields of its kind.
SubmitterResult(f, r) ==
    IF r.value = None THEN Returned("None", None)
    ELSE LET result == Val(r.value).result IN
         IF f = "image_analysis" THEN Returned("result", Some(result))
         ELSE IF ~HasKey(result, "report") \/ ~HasKey(result, "error")
         THEN Raised("KeyError")
         ELSE Returned("report_error",
                       Some(<<Lookup(result, "report"), Lookup(result, "error")>>))

----------------------------------------------------------------------------
(* The inputs: configurations, arguments, and what the server answers. *)

Latest      == <<"L","a","t","e","s","t">>
TESTING     == <<"T","E","S","T","I","N","G">>
Performance == <<"P","e","r","f","o","r","m","a","n","c","e">>
fedora      == <<"f","e","d","o","r","a">>
rhel        == <<"r","h","e","l">>
Pipfile     == <<"[","p","a","c","k","a","g","e","s","]">>
PipfileLock == <<"{","}">>
Image       == <<"f","e","d","o","r","a",":","3","0">>
User        == <<"u","s","e","r">>
Password    == <<"p","a","s","s">>
Host        == <<"t","h","o","t","h",".","e","x","a","m","p","l","e">>

\* Runtime environment entries of the configuration file.
ConfigEntries ==
    { {<<"name", Some(fedora)>>},
      {<<"name", Some(fedora)>>, <<"recommendation_type", Some(TESTING)>>} }

\* Contents of the configuration file.
ConfigContents ==
    [recommendation_type : {None, Some(<<>>), Some(Performance)},
     runtime_environments : {<<>>},
     host : {None}]
    \cup
    [recommendation_type : {None, Some(Performance)},
     runtime_environments : {<<e>> : e \in ConfigEntries},
     host : {None}]

\* Runtime environments a caller passes to advise.
ArgEnvironments ==
    { None, Some({}),
      Some({<<"name", Some(rhel)>>}),
      Some({<<"name", Some(rhel)>>, <<"recommendation_type", Some(TESTING)>>}),
      Some({<<"recommendation_type", Some(<<>>)>>}),
      Some({<<"recommendation_type", None>>}) }

NoArgs ==
    [pipfile |-> None, pipfile_lock |-> None, recommendation_type |-> None,
     runtime_environment |-> None, runtime_environment_name |-> None,
     nowait |-> FALSE, image |-> None, registry_user |-> None,
     registry_password |-> None, analysis_id |-> None]

\* advise: every combination of recommendation type, runtime environment and
\* runtime environment name, and the Pipfile and lock variants.
AdviseArgs ==
    { [NoArgs EXCEPT !.pipfile = Some(Pipfile), !.pipfile_lock = Some(PipfileLock),
                     !.recommendation_type = t, !.runtime_environment = e,
                     !.runtime_environment_name = n, !.nowait = w] :
        t \in {None, Some(<<>>), Some(Latest)}, e \in ArgEnvironments,
        n \in {None, Some(fedora), Some(rhel)}, w \in BOOLEAN }
    \cup
    { [NoArgs EXCEPT !.pipfile = p, !.pipfile_lock = l, !.runtime_environment = e,
                     !.runtime_environment_name = n] :
        p \in {None, Some(<<>>), Some(Pipfile)}, l \in {None, Some(<<>>)},
        e \in {None, Some({<<"name", Some(rhel)>>})}, n \in {None, Some(rhel)} }

ProvenanceArgs ==
    { [NoArgs EXCEPT !.pipfile = p, !.pipfile_lock = l, !.nowait = w] :
        p \in {None, Some(<<>>), Some(Pipfile)},
        l \in {None, Some(<<>>), Some(PipfileLock)}, w \in BOOLEAN }

ImageArgs ==
    { [NoArgs EXCEPT !.image = i, !.registry_user = u, !.registry_password = q,
                     !.nowait = w] :
        i \in {None, Some(<<>>), Some(Image)}, u \in {None, Some(<<>>), Some(User)},
        q \in {None, Some(<<>>), Some(Password)}, w \in BOOLEAN }

\* Identifiers handed to get_log and get_status: every known prefix, whole,
\* cut short, capitalised, preceded by a character or by another prefix.
Stems ==
    LET prefixes == {package_extract_prefix, provenance_checker_prefix, adviser_prefix} IN
    prefixes
    \cup {SubSeq(q, 1, Len(q) - 1) : q \in prefixes}
    \cup {<<"x">> \o q : q \in prefixes}
    \cup {q \o r : q \in prefixes, r \in prefixes}
    \cup {<<"A">> \o SubSeq(adviser_prefix, 2, Len(adviser_prefix)),
          <<"b","o","g","u","s","-">>, <<>>}

Identifiers == {stem \o suffix : stem \in Stems, suffix \in {<<>>, <<"1">>, <<"x">>}}

DispatchArgs == {[NoArgs EXCEPT !.analysis_id = Some(id)] : id \in Identifiers}

\* The identifiers a submit response carries.
ServerIds == {adviser_prefix \o <<"1">>, package_extract_prefix \o <<"7">>}

\* What a submit request does: a response with an identifier, or an error.
SubmitResponses ==
    {[raises |-> "", analysis_id |-> id] : id \in ServerIds}
    \cup {[raises |-> "ApiException", analysis_id |-> <<>>]}

\* What a status request does: a response with status.state and
\* status.finished_at, or an error.
StatusResponses ==
    {[raises |-> "", status |-> [state |-> st, finished_at |-> fa]] :
        st \in {"running", "succeeded"}, fa \in {None, Some("2019-08-01T10:00:00")}}
    \cup {[raises |-> e, status |-> [state |-> "", finished_at |-> None]] :
        e \in {"ApiException", "MaxRetryError"}}

\* Bodies of an ApiException.
ErrorBodies ==
    { [syntax |-> "object", members |-> {<<"error", "boom">>}],
      [syntax |-> "object", members |-> {<<"message", "not found">>}],
      [syntax |-> "array", members |-> {}],
      [syntax |-> "text", members |-> {}],
      [syntax |-> "none", members |-> {}] }

NoBody == [syntax |-> "none", members |-> {}]

\* Result responses of the server: .result and .metadata.
ResultValues ==
    { [metadata |-> "m1",
       result |-> {<<"report", Some(<<"r">>)>>, <<"error", None>>}],
      [metadata |-> "m2",
       result |-> {<<"report", None>>, <<"error", Some(<<"e">>)>>}] }

\* What a result request does: a response, an ApiException with a body, or
\* an error of another type.
ResultResponses ==
    {[kind |-> "return", exc |-> "", body |-> NoBody, value |-> Some(v)] : v \in ResultValues}
    \cup {[kind |-> "raise", exc |-> "ApiException", body |-> b, value |-> None] :
            b \in ErrorBodies}
    \cup {[kind |-> "raise", exc |-> "MaxRetryError", body |-> NoBody, value |-> None]}

\* Logger levels and values of THAMOS_NO_PROGRESSBAR.
LogLevels == {"DEBUG", "INFO"}
ProgressbarValues == {None, Some(<<"0">>), Some(<<"1">>), Some(<<"n","o">>)}

\* The _wait_for_analysis invocations that run side by side, one per thread.
Pollers == {"p1", "p2"}

\* An invocation that has not begun: no local is bound yet.
NoPoller ==
    [pc |-> "start", spinner |-> "", sleep_time |-> 0, sleeps |-> <<>>,
     log |-> <<>>, more |-> FALSE]

----------------------------------------------------------------------------
(* The state machine. *)

\* No call was made yet; the configuration is as loaded from its file, with
\* or without an explicit host.
Init ==
    /\ thoth_config \in
         {[explicit_host |-> h, file |-> c, content |-> c,
           tls_verify |-> TRUE, api_url |-> None] :
            h \in {None, Some(Host)}, c \in ConfigContents}
    /\ pc = "idle"
    /\ func = "none"
    /\ args = NoArgs
    /\ calls = <<>>
    /\ submitted = None
    /\ analysis_id = None
    /\ sleep_time = InitialSleepTime
    /\ sleeps = <<>>
    /\ status_log = <<>>
    /\ response = None
    /\ fetched = None
    /\ retrieved = None
    /\ outcome = NoOutcome
    /\ api_client = None
    /\ passed = {}
    /\ pollers = [p \in Pollers |-> NoPoller]
    /\ jobs = [p \in Pollers |-> "running"]

\* The call ends: it returns or raises.
Finish(o) ==
    /\ outcome' = o
    /\ pc' = "done"

\* with_api_client's wrapper up to the call of func: the configuration is
\* loaded again unless an explicit host is set, and the API is discovered.
WithApiClient(f, a) ==
    /\ pc = "idle"
    /\ LET loaded == IF ~Truthy(thoth_config.explicit_host)
                     THEN LoadConfig(thoth_config)
                     ELSE thoth_config
           discovered == ApiDiscovery(loaded, Val(WrapperHost(loaded)))
       IN
       /\ thoth_config' = discovered
       /\ api_client' = Some(ApiClient(discovered))
    /\ pc' = "body"
    /\ func' = f
    /\ args' = a
    /\ calls' = <<"api_discovery">>
    /\ UNCHANGED <<submitted, analysis_id, sleep_time, sleeps, status_log,
                   response, fetched, retrieved, outcome, passed>>
    /\ UNCHANGED pollvars

\* The wrapper hands the result (or the exception) of func to its caller;
\* nothing of the call is kept but the configuration.  (api_client goes on
\* naming the client this call built, which nothing refers to any more.)
Return ==
    /\ pc = "done"
    /\ pc' = "idle"
    /\ func' = "none"
    /\ args' = NoArgs
    /\ calls' = <<>>
    /\ submitted' = None
    /\ analysis_id' = None
    /\ sleep_time' = InitialSleepTime
    /\ sleeps' = <<>>
    /\ status_log' = <<>>
    /\ response' = None
    /\ fetched' = None
    /\ retrieved' = None
    /\ outcome' = NoOutcome
    /\ passed' = {}
    /\ UNCHANGED <<thoth_config, api_client>>
    /\ UNCHANGED pollvars

CallAdvise == \E a \in AdviseArgs : WithApiClient("advise", a)
CallProvenanceCheck == \E a \in ProvenanceArgs : WithApiClient("provenance_check", a)
CallImageAnalysis == \E a \in ImageArgs : WithApiClient("image_analysis", a)
CallGetLog == \E a \in DispatchArgs : WithApiClient("get_log", a)
CallGetStatus == \E a \in DispatchArgs : WithApiClient("get_status", a)

\* A submitter from its submit request on: the request is sent; an error ends
\* the call, nowait returns the identifier, otherwise the wait begins.
Submit(endpoint, parameters, r) ==
    /\ calls' = Append(calls, endpoint)
    /\ submitted' = Some(parameters)
    /\ IF r.raises # ""
       THEN /\ Finish(Raised(r.raises))
            /\ UNCHANGED analysis_id
       ELSE /\ analysis_id' = Some(r.analysis_id)
            /\ IF ReturnsIdentifier(args)
               THEN Finish(Returned("analysis_id", Some(r.analysis_id)))
               ELSE /\ pc' = "wait"
                    /\ UNCHANGED outcome

\* advise, to the start of the wait.
Advise ==
    /\ pc = "body"
    /\ func = "advise"
    /\ UNCHANGED <<func, sleep_time, sleeps, status_log, response, fetched, retrieved,
                   api_client, passed>>
    /\ UNCHANGED pollvars
    /\ IF AdviseValidation(args) # ""
       THEN /\ Finish(ValueError(AdviseValidation(args)))
            /\ UNCHANGED <<thoth_config, args, calls, submitted, analysis_id>>
       ELSE LET content == thoth_config.content
                selected == SelectedEnvironment(args, content)
            IN
            IF selected.raises # ""
            THEN /\ Finish(Raised(selected.raises))
                 /\ UNCHANGED <<thoth_config, args, calls, submitted, analysis_id>>
            ELSE LET parameters ==
                         [endpoint |-> "post_advise_python",
                          requirements |-> args.pipfile,
                          requirements_lock |-> PyOr(args.pipfile_lock, Some(<<>>)),
                          runtime_environment |-> PoppedEnvironment(selected.env),
                          recommendation_type |->
                              RecommendationType(args.recommendation_type,
                                                 selected.env, content)]
                 IN
                 \* runtime_environment.pop() changes the mapping it was given
                 /\ args' = IF selected.from = "argument"
                            THEN [args EXCEPT !.runtime_environment =
                                                  PoppedEnvironment(selected.env)]
                            ELSE args
                 /\ thoth_config' =
                        IF selected.from = "config"
                        THEN [thoth_config EXCEPT
                                !.content.runtime_environments[selected.index] =
                                    Val(PoppedEnvironment(selected.env))]
                        ELSE thoth_config
                 /\ \E r \in SubmitResponses : Submit("post_advise_python", parameters, r)

\* provenance_check, to the start of the wait.
ProvenanceCheck ==
    /\ pc = "body"
    /\ func = "provenance_check"
    /\ UNCHANGED <<thoth_config, func, args, sleep_time, sleeps, status_log,
                   response, fetched, retrieved, api_client, passed>>
    /\ UNCHANGED pollvars
    /\ IF ProvenanceValidation(args) # ""
       THEN /\ Finish(ValueError(ProvenanceValidation(args)))
            /\ UNCHANGED <<calls, submitted, analysis_id>>
       ELSE \E r \in SubmitResponses :
                Submit("post_provenance_python",
                       [endpoint |-> "post_provenance_python",
                        requirements |-> args.pipfile,
                        requirements_lock |-> args.pipfile_lock], r)

\* image_analysis, to the start of the wait.
ImageAnalysis ==
    /\ pc = "body"
    /\ func = "image_analysis"
    /\ UNCHANGED <<thoth_config, func, args, sleep_time, sleeps, status_log,
                   response, fetched, retrieved, api_client, passed>>
    /\ UNCHANGED pollvars
    /\ IF ImageValidation(args) # ""
       THEN /\ Finish(ValueError(ImageValidation(args)))
            /\ UNCHANGED <<calls, submitted, analysis_id>>
       ELSE \E r \in SubmitResponses :
                Submit("post_analyze",
                       [endpoint |-> "post_analyze",
                        image |-> args.image,
                        keywords |-> PostAnalyzeKeywords(args)], r)

\* _wait_for_analysis: one status request and the test of its response.
WaitForAnalysis ==
    /\ pc = "wait"
    /\ \E r \in StatusResponses :
        /\ calls' = Append(calls, WaitArguments(func, Val(analysis_id)).func)
        /\ passed' = passed \cup {WaitArguments(func, Val(analysis_id))}
        /\ status_log' = Append(status_log, [raises |-> r.raises,
                                             finished_at |-> r.status.finished_at])
        /\ CASE AfterStatus(r) = "raise" ->
                  /\ Finish(Raised(r.raises))
                  /\ response' = None
             [] AfterStatus(r) = "break" ->
                  \* the function returns and its locals are gone
                  /\ response' = None
                  /\ pc' = "retrieve"
                  /\ UNCHANGED outcome
             [] OTHER ->
                  /\ response' = Some(r)
                  /\ pc' = "sleep"
                  /\ UNCHANGED outcome
    /\ UNCHANGED <<thoth_config, func, args, submitted, analysis_id, sleep_time,
                   sleeps, fetched, retrieved, api_client>>
    /\ UNCHANGED pollvars

\* _wait_for_analysis: the sleep after an unfinished status, and the new
\* sleep_time.
Sleep ==
    /\ pc = "sleep"
    /\ Len(sleeps) < MaxSleeps
    /\ sleeps' = Append(sleeps, sleep_time)
    /\ calls' = Append(calls, "sleep")
    /\ sleep_time' = NextSleepTime(sleep_time)
    /\ pc' = "wait"
    /\ UNCHANGED <<thoth_config, func, args, submitted, analysis_id, status_log,
                   response, fetched, retrieved, outcome, api_client, passed>>
    /\ UNCHANGED pollvars

\* _retrieve_analysis_result and the rest of the submitter.
Retrieve ==
    /\ pc = "retrieve"
    /\ \E f \in ResultResponses :
        LET r == RetrieveAnalysisResult(f) IN
        /\ calls' = Append(calls, RetrieveArguments(func, Val(analysis_id)).func)
        /\ passed' = passed \cup {RetrieveArguments(func, Val(analysis_id))}
        /\ fetched' = Some(f)
        /\ retrieved' = Some(r)
        /\ IF r.kind = "raise"
           THEN Finish(Raised(r.exc))
           ELSE Finish(SubmitterResult(func, r))
    /\ UNCHANGED <<thoth_config, func, args, submitted, analysis_id, sleep_time,
                   sleeps, status_log, response, api_client>>
    /\ UNCHANGED pollvars

\* get_log
GetLog ==
    /\ pc = "body"
    /\ func = "get_log"
    /\ LET method == LogMethod(Val(args.analysis_id)) IN
       IF method = "UnknownAnalysisType"
       THEN /\ Finish(Raised("UnknownAnalysisType"))
            /\ UNCHANGED calls
       ELSE /\ calls' = Append(calls, method)
            /\ \E failed \in BOOLEAN :
                 Finish(IF failed THEN Raised("ApiException")
                        ELSE Returned("log", Some(<<"l","o","g">>)))
    /\ UNCHANGED <<thoth_config, func, args, submitted, analysis_id, sleep_time,
                   sleeps, status_log, response, fetched, retrieved, api_client,
                   passed>>
    /\ UNCHANGED pollvars

\* get_status
GetStatus ==
    /\ pc = "body"
    /\ func = "get_status"
    /\ LET method == StatusMethod(Val(args.analysis_id)) IN
       IF method = "UnknownAnalysisType"
       THEN /\ Finish(Raised("UnknownAnalysisType"))
            /\ UNCHANGED <<calls, response>>
       ELSE /\ calls' = Append(calls, method)
            /\ \E r \in StatusResponses :
                 IF r.raises # ""
                 THEN /\ Finish(Raised(r.raises))
                      /\ UNCHANGED response
                 ELSE /\ response' = Some(r)
                      /\ Finish(Returned("status", Some(r.status)))
    /\ UNCHANGED <<thoth_config, func, args, submitted, analysis_id, sleep_time,
                   sleeps, status_log, fetched, retrieved, api_client, passed>>
    /\ UNCHANGED pollvars

Next ==
    \/ CallAdvise
    \/ CallProvenanceCheck
    \/ CallImageAnalysis
    \/ CallGetLog
    \/ CallGetStatus
    \/ Advise
    \/ ProvenanceCheck
    \/ ImageAnalysis
    \/ WaitForAnalysis
    \/ Sleep
    \/ Retrieve
    \/ GetLog
    \/ GetStatus
    \/ Return

Spec == Init /\ [][Next]_vars

----------------------------------------------------------------------------
(* The configuration changes between top-level calls. *)

OtherHost == <<"s","t","a","g","e",".","e","x","a","m","p","l","e">>

\* Between two calls the program sets or clears the explicit host, the host
\* entry of the configuration file is edited, or TLS verification is switched.
ChangeConfiguration ==
    /\ pc = "idle"
    /\ \E h \in {None, Some(Host)}, fh \in {None, Some(OtherHost)}, tls \in BOOLEAN :
          /\ thoth_config' = [thoth_config EXCEPT !.explicit_host = h,
                                                  !.file.host = fh,
                                                  !.tls_verify = tls]
          /\ thoth_config' # thoth_config
    /\ UNCHANGED <<pc, func, args, calls, submitted, analysis_id, sleep_time,
                   sleeps, status_log, response, fetched, retrieved, outcome,
                   api_client, passed>>
    /\ UNCHANGED pollvars

\* One configuration file to begin with.
InitClient ==
    /\ Init
    /\ thoth_config.explicit_host = None
    /\ thoth_config.file.recommendation_type = None
    /\ thoth_config.file.runtime_environments = <<>>

NextClient ==
    \/ ChangeConfiguration
    \/ CallGetLog
    \/ CallGetStatus
    \/ GetLog
    \/ GetStatus
    \/ Return

SpecClient == InitClient /\ [][NextClient]_vars

----------------------------------------------------------------------------
(* _wait_for_analysis, in several threads at once. *)

\* A record of at most n entries: what comes later is not kept.
Record(seq, x, n) == IF Len(seq) < n THEN Append(seq, x) ELSE seq

\* Every invocation sleeps for the sleep_time of the first one.
SleepTimeShared(p) == pollers["p1"].sleep_time

\* sleep(sleep_time): the invocation's own local.
SleepTime(p) == pollers[p].sleep_time

\* The invocation begins: the spinner is chosen and sleep_time is 0.5.
PollerStart(p) ==
    /\ pollers[p].pc = "start"
    /\ \E level \in LogLevels, env \in ProgressbarValues :
          pollers' = [pollers EXCEPT
                        ![p].spinner = Spinner(level, env),
                        ![p].sleep_time = InitialSleepTime,
                        ![p].pc = IF Spinner(level, env) \in {"yaspin", "_no_spinner"}
                                  THEN "wait" ELSE "raised"]
    /\ UNCHANGED jobs
    /\ UNCHANGED callvars

\* One status request and the test of its response; the server answers with
\* finished_at set once the analysis has finished.
PollerFetch(p) ==
    /\ pollers[p].pc = "wait"
    /\ \E r \in StatusResponses :
          /\ r.raises = "" => (r.status.finished_at # None <=> jobs[p] = "finished")
          /\ pollers' = [pollers EXCEPT
                ![p].log = IF pollers[p].more THEN @
                           ELSE Append(@, [raises |-> r.raises,
                                           finished_at |-> r.status.finished_at]),
                ![p].pc = CASE AfterStatus(r) = "raise" -> "raised"
                            [] AfterStatus(r) = "break" -> "returned"
                            [] OTHER -> "sleep"]
    /\ UNCHANGED jobs
    /\ UNCHANGED callvars

\* A loop that sleeps only under the spinner and asks again at once without.
PollerSleepSpinning(p) ==
    /\ pollers[p].pc = "sleep"
    /\ pollers' = [pollers EXCEPT
          ![p].sleeps = IF pollers[p].spinner = "yaspin"
                        THEN Record(@, SleepTime(p), MaxSleeps) ELSE @,
          ![p].more = @ \/ Len(pollers[p].sleeps) = MaxSleeps,
          ![p].sleep_time = IF pollers[p].spinner = "yaspin"
                            THEN NextSleepTime(@) ELSE @,
          ![p].pc = "wait"]
    /\ UNCHANGED jobs
    /\ UNCHANGED callvars

\* A loop that gives up after three sleeps.
PollerSleepLimited(p) ==
    /\ pollers[p].pc = "sleep"
    /\ pollers' = [pollers EXCEPT
          ![p].sleeps = Record(@, SleepTime(p), MaxSleeps),
          ![p].more = @ \/ Len(pollers[p].sleeps) = MaxSleeps,
          ![p].sleep_time = NextSleepTime(@),
          ![p].pc = IF Len(pollers[p].sleeps) >= 3 THEN "raised" ELSE "wait"]
    /\ UNCHANGED jobs
    /\ UNCHANGED callvars

\* The sleep after an unfinished status, and the new sleep_time.  Of the
\* sleeps the first MaxSleeps are kept; the loop goes on after them.
PollerSleep(p) ==
    /\ pollers[p].pc = "sleep"
    /\ pollers' = [pollers EXCEPT
          ![p].sleeps = Record(@, SleepTime(p), MaxSleeps),
          ![p].more = @ \/ Len(pollers[p].sleeps) = MaxSleeps,
          ![p].sleep_time = NextSleepTime(@),
          ![p].pc = "wait"]
    /\ UNCHANGED jobs
    /\ UNCHANGED callvars

\* The invocation has returned or raised; its thread calls again, for a new
\* analysis.
PollerReturn(p) ==
    /\ pollers[p].pc \in {"returned", "raised"}
    /\ pollers' = [pollers EXCEPT ![p] = NoPoller]
    /\ jobs' = [jobs EXCEPT ![p] = "running"]
    /\ UNCHANGED callvars

\* The server finishes the analysis.
JobFinishes(p) ==
    /\ jobs[p] = "running"
    /\ pollers[p].pc # "start"
    /\ jobs' = [jobs EXCEPT ![p] = "finished"]
    /\ UNCHANGED pollers
    /\ UNCHANGED callvars

\* No top-level call runs; one configuration.
InitPollers ==
    /\ Init
    /\ thoth_config.explicit_host = None
    /\ thoth_config.file.recommendation_type = None
    /\ thoth_config.file.runtime_environments = <<>>

NextPollers ==
    \E p \in Pollers :
        \/ PollerStart(p)
        \/ PollerFetch(p)
        \/ PollerSleep(p)
        \/ PollerReturn(p)
        \/ JobFinishes(p)

SpecPollers == InitPollers /\ [][NextPollers]_vars

\* Each thread keeps running: a status request that can be made is made, and
\* a sleep ends.
SpecPollersFair ==
    /\ SpecPollers
    /\ \A p \in Pollers : WF_vars(PollerFetch(p)) /\ WF_vars(PollerSleep(p))

----------------------------------------------------------------------------
(* The properties. *)

Submitters == {"advise", "provenance_check", "image_analysis"}

StatusEndpoints ==
    {"get_advise_python_status", "get_provenance_python_status", "get_analyze_status"}

ResultEndpoints == {"get_advise_python", "get_provenance_python", "get_analyze"}

SubmitEndpoints == {"post_advise_python", "post_provenance_python", "post_analyze"}

\* The number of entries of a sequence that are in a set.
Count(seq, S) == Cardinality({i \in 1..Len(seq) : seq[i] \in S})

RECURSIVE Pow2(_)
Pow2(n) == IF n = 0 THEN 1 ELSE 2 * Pow2(n - 1)

\* A status response that carries a finished_at.
FinishedResponse(entry) == entry.raises = "" /\ entry.finished_at # None

\* C1: _wait_for_analysis stops on the first status response whose
\* finished_at is not None: that response is the last status request of the
\* call and no sleep follows it (there is one sleep per earlier response), and
\* the wait never ends normally on a response whose finished_at is None.
C1_StopsOnFirstFinished ==
    func \in Submitters =>
        /\ \A i \in 1..Len(status_log) :
              FinishedResponse(status_log[i]) =>
                  /\ i = Len(status_log)
                  /\ Count(calls, StatusEndpoints) = i
                  /\ Len(sleeps) = i - 1
                  /\ Count(calls, {"sleep"}) = i - 1
                  /\ pc \notin {"wait", "sleep"}
        /\ (pc = "retrieve" \/ fetched # None) =>
              /\ status_log # <<>>
              /\ FinishedResponse(status_log[Len(status_log)])

\* C1, witness: the wait ended on the third status response, after two
\* unfinished ones.
C1_Witness ==
    /\ pc = "retrieve"
    /\ Len(status_log) = 3
    /\ Len(sleeps) = 2
    /\ FinishedResponse(status_log[3])

\* C2: the k-th sleep of _wait_for_analysis lasts min(0.5 * 2^(k-1), 10)
\* seconds, that is min(2^(k-1), 20) half seconds: 0.5, 1, 2, 4, 8, 10 and 10
\* from then on; no sleep exceeds 10 seconds or is shorter than the one before.
C2_Backoff ==
    /\ \A k \in 1..Len(sleeps) :
          /\ sleeps[k] = Min(Pow2(k - 1), 20)
          /\ sleeps[k] <= 20
          /\ k > 1 => sleeps[k] >= sleeps[k - 1]
    /\ Len(sleeps) >= 6 => SubSeq(sleeps, 1, 6) = <<1, 2, 4, 8, 16, 20>>
    /\ \A k \in 7..Len(sleeps) : sleeps[k] = 20

\* C2, witness: a wait that slept seven times, the last two at the ceiling.
C2_Witness ==
    /\ Len(sleeps) >= 7
    /\ sleeps[6] = 20
    /\ sleeps[7] = 20

\* C3: with nowait true and a successful submit, each submitter returns the
\* analysis identifier of the submit response and makes no status request, no
\* sleep and no result request.
C3_NoWaitReturnsIdentifier ==
    (func \in Submitters /\ args.nowait /\ analysis_id # None) =>
        /\ pc = "done"
        /\ outcome = Returned("analysis_id", analysis_id)
        /\ Count(calls, StatusEndpoints \cup ResultEndpoints \cup {"sleep"}) = 0
        /\ status_log = <<>>
        /\ fetched = None

\* C3, witness: image_analysis with nowait returned the submit response's
\* identifier.
C3_Witness ==
    /\ pc = "done"
    /\ func = "image_analysis"
    /\ args.nowait
    /\ calls = <<"api_discovery", "post_analyze">>
    /\ outcome.what = "analysis_id"
    /\ outcome.value = Some(package_extract_prefix \o <<"7">>)

ConflictMessage ==
    "Cannot use runtime_environment and runtime_environment_name at the same time"

\* advise was called with both runtime_environment and
\* runtime_environment_name set.
BothEnvironmentsSet ==
    /\ func = "advise"
    /\ TruthyDict(args.runtime_environment)
    /\ Truthy(args.runtime_environment_name)

\* C4, as claimed: advise with both runtime_environment and
\* runtime_environment_name set fails with the conflicting-input error before
\* any network call, host discovery included.
C4_Original ==
    (BothEnvironmentsSet /\ pc = "done") =>
        /\ outcome = ValueError(ConflictMessage)
        /\ calls = <<>>

\* C4, amended: advise with a non-empty Pipfile and both runtime_environment
\* and runtime_environment_name non-empty fails with the conflicting-input
\* ValueError before any submit, status or result request; the API discovery
\* of with_api_client is the one call made before it.
C4_ConflictBeforeSubmit ==
    (BothEnvironmentsSet /\ Truthy(args.pipfile) /\ pc = "done") =>
        /\ outcome = ValueError(ConflictMessage)
        /\ calls = <<"api_discovery">>
        /\ submitted = None
        /\ analysis_id = None

\* C4, witness: such a call has failed.
C4_Witness ==
    /\ BothEnvironmentsSet
    /\ Truthy(args.pipfile)
    /\ pc = "done"
    /\ outcome.kind = "raise"

\* The first level that has a non-empty value: the explicit parameter, the
\* selected runtime environment entry, the configuration, "stable".
ClaimedRecommendationType(a, content) ==
    LET env == SelectedEnvironment(a, content).env IN
    IF Truthy(a.recommendation_type) THEN a.recommendation_type
    ELSE IF /\ TruthyDict(env)
            /\ HasKey(Val(env), "recommendation_type")
            /\ Truthy(Lookup(Val(env), "recommendation_type"))
    THEN Lookup(Val(env), "recommendation_type")
    ELSE IF Truthy(content.recommendation_type) THEN content.recommendation_type
    ELSE Some(stable)

\* C5, as claimed: whatever is present, absent or empty at the four levels,
\* the recommendation type advise submits is (up to letter case) the value of
\* the first level that has one: explicit parameter, runtime environment
\* entry, configuration, "stable".
C5_Precedence ==
    [][(pc = "body" /\ func = "advise" /\ submitted' # None) =>
          /\ Truthy(Val(submitted').recommendation_type)
          /\ Lower(Val(Val(submitted').recommendation_type))
               = Lower(Val(ClaimedRecommendationType(args, thoth_config.content)))]_vars

\* A structured error: an ApiException whose body is a JSON object with an
\* "error" member.
RecognizedDomainFailure(f) ==
    /\ f.kind = "raise"
    /\ f.exc = "ApiException"
    /\ f.body.syntax = "object"
    /\ \E m \in f.body.members : m[1] = "error"

C7_OtherErrorsPropagate ==
    (retrieved # None /\ Val(fetched).kind = "raise"
        /\ ~RecognizedDomainFailure(Val(fetched))) =>
        /\ Val(retrieved).kind = "raise"
        /\ Val(retrieved).exc = Val(fetched).exc
        /\ Val(retrieved).body = Val(fetched).body
        /\ outcome = Raised(Val(fetched).exc)

\* id begins with prefix.
HasPrefix(id, prefix) == \E n \in 0..Len(id) : SubSeq(id, 1, n) = prefix

\* The kinds whose prefix an identifier begins with.
KindsOf(id) ==
    {k \in {"image", "provenance", "advise"} :
        HasPrefix(id, CASE k = "image"      -> package_extract_prefix
                        [] k = "provenance" -> provenance_checker_prefix
                        [] OTHER            -> adviser_prefix)}

\* The endpoint of a kind that get_log or get_status is to invoke.
DispatchEndpoint(f, k) ==
    CASE f = "get_log" /\ k = "image"         -> "get_analyze_log"
      [] f = "get_log" /\ k = "provenance"    -> "get_provenance_python_log"
      [] f = "get_log" /\ k = "advise"        -> "get_advise_python_log"
      [] f = "get_status" /\ k = "image"      -> "get_analyze_status"
      [] f = "get_status" /\ k = "provenance" -> "get_provenance_python_status"
      [] OTHER                                -> "get_advise_python_status"

\* C8: get_log and get_status invoke the endpoint of the kind the
\* identifier's prefix names; no identifier has two kinds; an identifier of no
\* kind makes both raise UnknownAnalysisType without any endpoint invoked.
C8_Dispatch ==
    (func \in {"get_log", "get_status"} /\ pc = "done") =>
        LET kinds == KindsOf(Val(args.analysis_id)) IN
        /\ Cardinality(kinds) <= 1
        /\ kinds = {} =>
              /\ outcome = Raised("UnknownAnalysisType")
              /\ calls = <<"api_discovery">>
        /\ \A k \in kinds :
              /\ calls = <<"api_discovery", DispatchEndpoint(func, k)>>
              /\ outcome.exc # "UnknownAnalysisType"

\* C8, witness: get_log of a provenance-checker identifier returned the log
\* of the provenance endpoint.
C8_Witness ==
    /\ func = "get_log"
    /\ pc = "done"
    /\ args.analysis_id = Some(provenance_checker_prefix \o <<"1">>)
    /\ calls = <<"api_discovery", "get_provenance_python_log">>
    /\ outcome.what = "log"

\* C9: an error of a status request ends the call with that error: it is the
\* last status request, no sleep follows it and no result is requested.
C9_StatusErrorAborts ==
    func \in Submitters =>
        \A i \in 1..Len(status_log) :
            status_log[i].raises # "" =>
                /\ i = Len(status_log)
                /\ pc = "done"
                /\ outcome = Raised(status_log[i].raises)
                /\ Count(calls, StatusEndpoints) = i
                /\ calls[Len(calls)] \in StatusEndpoints
                /\ Len(sleeps) = i - 1
                /\ Count(calls, {"sleep"}) = i - 1
                /\ Count(calls, ResultEndpoints) = 0
                /\ fetched = None

\* C9, witness: the third status request of a call failed.
C9_Witness ==
    /\ func = "advise"
    /\ pc = "done"
    /\ Len(status_log) = 3
    /\ status_log[3].raises = "MaxRetryError"
    /\ outcome.exc = "MaxRetryError"

\* The call has failed validation: a ValueError and no submit request.
FailedFast ==
    /\ pc = "done"
    /\ outcome.kind = "raise"
    /\ outcome.exc = "ValueError"
    /\ submitted = None
    /\ Count(calls, SubmitEndpoints) = 0

\* C10, as claimed: advise and provenance_check with an empty Pipfile,
\* provenance_check with an empty lock, and image_analysis with an empty image
\* all fail with the invalid-input error and send no submit request.
C10_RequiredInputs ==
    pc \notin {"idle", "body"} =>
        /\ (func = "advise" /\ ~Truthy(args.pipfile)) => FailedFast
        /\ (func = "provenance_check" /\ ~Truthy(args.pipfile)) => FailedFast
        /\ (func = "provenance_check" /\ ~Truthy(args.pipfile_lock)) => FailedFast
        /\ (func = "image_analysis" /\ ~Truthy(args.image)) => FailedFast

\* The call is a synchronous run of a submitter (nowait false).
Synchronous == func \in Submitters /\ ~args.nowait

\* The three ways a submitter hands back the outcome of a retrieval.
RetrievalOutcomes == {"None", "report_error", "result"}

\* C11, as claimed: a synchronous run that made its result request ends in
\* RESULT_AVAILABLE or RESULT_ABSENT, that is with a returned value.
C11_Original ==
    (Synchronous /\ pc = "done" /\ fetched # None) =>
        /\ outcome.kind = "return"
        /\ outcome.what \in RetrievalOutcomes

\* C11, amended: in a synchronous run the requests are ordered submit, status
\* requests, result request: a status request comes only after the submit
\* request answered, the result request is made once, right after a status
\* response with finished_at set, and nothing follows it; and a run that
\* returns a value returns either the fields of the result or None, None
\* exactly when the result request raised a structured error.
C11_Order ==
    Synchronous =>
        /\ \A i \in 1..Len(calls) :
              /\ calls[i] \in SubmitEndpoints => i = 2
              /\ calls[i] \in StatusEndpoints =>
                    /\ i > 2
                    /\ calls[2] \in SubmitEndpoints
                    /\ analysis_id # None
              /\ calls[i] \in ResultEndpoints =>
                    /\ i > 3
                    /\ i = Len(calls)
                    /\ calls[i - 1] \in StatusEndpoints
                    /\ Len(status_log) > 0
                    /\ FinishedResponse(status_log[Len(status_log)])
                    /\ Count(calls, ResultEndpoints) = 1
                    /\ pc = "done"
        /\ (pc = "done" /\ outcome.kind = "return") =>
              /\ fetched # None
              /\ calls[Len(calls)] \in ResultEndpoints
              /\ outcome.what \in RetrievalOutcomes
              /\ outcome.what = "None" <=> RecognizedDomainFailure(Val(fetched))

\* C11, witness: a synchronous provenance_check that polled three times and
\* returned the fields of its result.
C11_Witness ==
    /\ func = "provenance_check"
    /\ ~args.nowait
    /\ pc = "done"
    /\ Len(status_log) = 3
    /\ outcome.what = "report_error"

\* C12: when the retrieval returned None the submitter returns None; otherwise
\* advise and provenance_check return the pair (report, error) of the result
\* and image_analysis returns the result itself.
C12_ReturnsKindFields ==
    (func \in Submitters /\ pc = "done" /\ fetched # None) =>
        LET f == Val(fetched) IN
        /\ RecognizedDomainFailure(f) => outcome = Returned("None", None)
        /\ f.kind = "return" =>
              LET result == Val(f.value).result IN
              /\ outcome.kind = "return"
              /\ IF func = "image_analysis"
                 THEN /\ outcome.what = "result"
                      /\ outcome.value = Some(result)
                 ELSE /\ outcome.what = "report_error"
                      /\ outcome.value = Some(<<Lookup(result, "report"),
                                                Lookup(result, "error")>>)

\* C12, witness: image_analysis returned the result of its analysis, and it is
\* not a pair.
C12_Witness ==
    /\ func = "image_analysis"
    /\ pc = "done"
    /\ fetched # None
    /\ Val(fetched).kind = "return"
    /\ outcome.what = "result"
    /\ outcome.value = Some(Val(Val(fetched).value).result)

\* C15: nothing is retried but the status request: a call makes at most one
\* submit request and at most one result request, an error of either ends the
\* call with that request as its last, and a status request is repeated only
\* after a status response that raised nothing and had finished_at None.
C15_NoRetries ==
    func \in Submitters =>
        /\ Count(calls, SubmitEndpoints) <= 1
        /\ Count(calls, ResultEndpoints) <= 1
        /\ (submitted # None /\ analysis_id = None) =>
              /\ pc = "done"
              /\ outcome.kind = "raise"
              /\ calls[Len(calls)] \in SubmitEndpoints
        /\ (fetched # None /\ Val(fetched).kind = "raise") =>
              /\ pc = "done"
              /\ calls[Len(calls)] \in ResultEndpoints
        /\ Count(calls, StatusEndpoints) = Len(status_log)
        /\ \A i \in 2..Len(status_log) :
              /\ status_log[i - 1].raises = ""
              /\ status_log[i - 1].finished_at = None

\* C15, witness: a call that asked for the status three times and whose one
\* result request failed.
C15_Witness ==
    /\ func = "image_analysis"
    /\ pc = "done"
    /\ Len(status_log) = 3
    /\ Count(calls, SubmitEndpoints) = 1
    /\ Count(calls, ResultEndpoints) = 1
    /\ fetched # None
    /\ Val(fetched).exc = "MaxRetryError"
    /\ outcome = Raised("MaxRetryError")

\* C18, as claimed: advise leaves the runtime environment mapping it reads as
\* it found it, both the mapping its caller passed and the entries of the
\* loaded configuration.
C18_EnvironmentUnchanged ==
    [][(pc = "body" /\ func = "advise") =>
          /\ args'.runtime_environment = args.runtime_environment
          /\ thoth_config'.content.runtime_environments
               = thoth_config.content.runtime_environments]_vars

\* C20, as claimed: image_analysis passes to post_analyze no registry
\* credential that is not set (None or empty).
C20_UnsetCredentialOmitted ==
    (func = "image_analysis" /\ submitted # None) =>
        /\ "registry_user" \in Val(submitted).keywords => Truthy(args.registry_user)
        /\ "registry_password" \in Val(submitted).keywords
              => Truthy(args.registry_password)

\* The status and the result method of each kind of analysis.
OwnStatusEndpoint ==
    [advise |-> "get_advise_python_status",
     provenance_check |-> "get_provenance_python_status",
     image_analysis |-> "get_analyze_status"]

OwnResultEndpoint ==
    [advise |-> "get_advise_python",
     provenance_check |-> "get_provenance_python",
     image_analysis |-> "get_analyze"]

OwnSubmitEndpoint ==
    [advise |-> "post_advise_python",
     provenance_check |-> "post_provenance_python",
     image_analysis |-> "post_analyze"]

\* C19: a submitter sends its submit, status and result requests to the
\* methods of its own kind, and gives its status and result requests the
\* identifier its own submit response carried.
C19_OwnEndpointsAndIdentifier ==
    func \in Submitters =>
        /\ \A i \in 1..Len(calls) :
              /\ calls[i] \in SubmitEndpoints => calls[i] = OwnSubmitEndpoint[func]
              /\ calls[i] \in StatusEndpoints => calls[i] = OwnStatusEndpoint[func]
              /\ calls[i] \in ResultEndpoints => calls[i] = OwnResultEndpoint[func]
              /\ calls[i] \in {"api_discovery", "sleep"} \cup SubmitEndpoints
                                \cup StatusEndpoints \cup ResultEndpoints
        /\ \A x \in passed :
              /\ analysis_id = Some(x.analysis_id)
              /\ x.func \in {OwnStatusEndpoint[func], OwnResultEndpoint[func]}
        /\ Count(calls, StatusEndpoints \cup ResultEndpoints) > 0 => passed # {}

\* C19, witness: image_analysis got an identifier that begins like an
\* adviser's, and polled and retrieved with it through its own methods.
C19_Witness ==
    /\ func = "image_analysis"
    /\ pc = "done"
    /\ analysis_id = Some(adviser_prefix \o <<"1">>)
    /\ passed = {[func |-> "get_analyze_status", analysis_id |-> adviser_prefix \o <<"1">>],
                 [func |-> "get_analyze", analysis_id |-> adviser_prefix \o <<"1">>]}

\* The ApiClient that the configuration as it is now calls for.
ConfiguredClient ==
    LET host == IF thoth_config.explicit_host \notin {None, Some(<<>>)}
                THEN Val(thoth_config.explicit_host)
                ELSE IF thoth_config.file.host \notin {None, Some(<<>>)}
                THEN Val(thoth_config.file.host)
                ELSE DefaultHost
    IN [host |-> host \o <<"/","a","p","i","/","v","1">>,
        verify_ssl |-> thoth_config.tls_verify]

\* C16: every top-level call builds its ApiClient from the host and the TLS
\* verification that the configuration resolves to when the call begins,
\* whatever ApiClient an earlier call built; and the call keeps that client.
C16_FreshClient ==
    [][/\ (pc = "idle" /\ pc' = "body") => api_client' = Some(ConfiguredClient')
       /\ pc # "idle" => api_client' = api_client]_vars

\* C16, witness: a call has built its ApiClient and returned, and the
\* configuration now resolves to another host and another TLS verification.
C16_Witness ==
    /\ pc = "idle"
    /\ api_client # None
    /\ Val(api_client).host # ConfiguredClient.host
    /\ Val(api_client).verify_ssl # ConfiguredClient.verify_ssl

\* An invocation whose record is whole: no sleep came after the MaxSleeps kept.
Whole(p) == pollers[p].pc # "start" /\ ~pollers[p].more

\* C17: each of several _wait_for_analysis invocations, run one after another
\* or interleaved, keeps to its own locals: it begins with a sleep_time of
\* 0.5, its k-th sleep lasts min(0.5 * 2^(k-1), 10) whatever the others have
\* slept, and it returns exactly on its own first response with finished_at
\* set and raises exactly on the error of its own status request.
C17_PollStatePrivate ==
    \A p \in Pollers :
        (Whole(p) /\ pollers[p].spinner \in {"yaspin", "_no_spinner"}) =>
            LET me == pollers[p]
                n == Len(me.log)
            IN
            /\ \A k \in 1..Len(me.sleeps) :
                  me.sleeps[k] = Min(InitialSleepTime * Pow2(k - 1), SleepCap)
            /\ me.sleep_time = Min(InitialSleepTime * Pow2(Len(me.sleeps)), SleepCap)
            /\ \A i \in 1..(n - 1) :
                  me.log[i].raises = "" /\ me.log[i].finished_at = None
            /\ me.pc = "wait" => Len(me.sleeps) = n
            /\ me.pc = "sleep" =>
                  /\ Len(me.sleeps) = n - 1
                  /\ me.log[n].raises = "" /\ me.log[n].finished_at = None
            /\ me.pc = "returned" =>
                  /\ Len(me.sleeps) = n - 1
                  /\ FinishedResponse(me.log[n])
            /\ me.pc = "raised" =>
                  /\ Len(me.sleeps) = n - 1
                  /\ me.log[n].raises # ""

\* C17, witness: one invocation is in its fourth round while the other has
\* just begun, with a sleep_time of 0.5.
C17_Witness ==
    /\ pollers["p1"].pc = "sleep"
    /\ pollers["p1"].sleeps = <<1, 2, 4>>
    /\ pollers["p1"].sleep_time = 8
    /\ pollers["p2"].pc = "wait"
    /\ pollers["p2"].sleeps = <<>>
    /\ pollers["p2"].sleep_time = InitialSleepTime

\* C13: the feedback has no part in the loop: an invocation under the spinner
\* and one without it that got the same status responses have both returned,
\* both raised or both gone on, and have slept the same durations in the same
\* order (one may be a step ahead of the other).
C13_FeedbackIndependent ==
    \A p \in Pollers, q \in Pollers :
        ( /\ Whole(p) /\ Whole(q)
          /\ pollers[p].spinner = "yaspin"
          /\ pollers[q].spinner = "_no_spinner"
          /\ pollers[p].log = pollers[q].log ) =>
            /\ pollers[p].pc = "returned" <=> pollers[q].pc = "returned"
            /\ pollers[p].pc = "raised" <=> pollers[q].pc = "raised"
            /\ \A k \in 1..Min(Len(pollers[p].sleeps), Len(pollers[q].sleeps)) :
                  pollers[p].sleeps[k] = pollers[q].sleeps[k]
            /\ pollers[p].pc = pollers[q].pc =>
                  /\ pollers[p].sleeps = pollers[q].sleeps
                  /\ pollers[p].sleep_time = pollers[q].sleep_time

\* C13, witness: with and without the spinner, the same three responses were
\* received and the same two sleeps made before the return.
C13_Witness ==
    /\ pollers["p1"].spinner = "yaspin"
    /\ pollers["p2"].spinner = "_no_spinner"
    /\ pollers["p1"].pc = "returned"
    /\ pollers["p2"].pc = "returned"
    /\ Len(pollers["p1"].log) = 3
    /\ pollers["p1"].log = pollers["p2"].log
    /\ pollers["p1"].sleeps = <<1, 2>>
    /\ pollers["p2"].sleeps = <<1, 2>>

\* C14: _wait_for_analysis has no limit of rounds and no timeout: it returns
\* only once the analysis has finished, every sleep is followed by another
\* status request however many came before, and once the analysis has
\* finished the invocation ends with its next status request.
C14_PollsUntilFinished ==
    \A p \in Pollers :
        /\ [](pollers[p].pc = "returned" => jobs[p] = "finished")
        /\ (pollers[p].pc = "sleep") ~> (pollers[p].pc = "wait")
        /\ (pollers[p].pc = "wait" /\ jobs[p] = "finished")
              ~> (pollers[p].pc \in {"returned", "raised"})

\* C14, witness: the analysis is still running after more sleeps than the
\* record keeps, and the invocation is about to sleep again.
C14_Witness ==
    /\ pollers["p1"].more
    /\ Len(pollers["p1"].sleeps) = MaxSleeps
    /\ pollers["p1"].pc = "sleep"
    /\ jobs["p1"] = "running"

====
